---- MODULE Spec2Model ----
(***************************************************************************)
(* displaymd: an HTTP server showing the markdown files beneath a root     *)
(* directory (src/src/main.rs).  The model covers the two request          *)
(* handlers, `index` and `view`, the path check of file_to_markdown, the   *)
(* recursive scan of collect_md_files / collect_recursive and the sidebar  *)
(* of build_sidebar, over a small file system with directories, regular    *)
(* files and symbolic links.                                               *)
(*                                                                         *)
(* A string is a sequence of characters, a character a one-element TLA+    *)
(* string; a file-system path is a sequence of names, the real location of *)
(* a node being the sequence of names from "/" down to it.                 *)
(***************************************************************************)
EXTENDS Naturals, Sequences, FiniteSets

VARIABLES
    fs,        \* the file system: real absolute path -> node
    pc,        \* "idle"; "scan" while a handler runs collect_md_files; "sent"
               \* when the handler has built its response
    handler,   \* the handler the scan runs in: "index" or "view"
    path,      \* view's `path` argument (the raw requested string)
    content,   \* view's `content`
    stack,     \* the active calls of collect_recursive, innermost last
    files,     \* collect_md_files's BTreeMap, as the sequence it iterates in
    origin,    \* history: key -> the path collect_recursive built it from
    hist,      \* history of the running scan (see NoHist)
    last,      \* history: the index of the scan completed before this one
    reads,     \* the real locations the request handed to read_to_string
    ftm,       \* the result of the request's file_to_markdown
    resp       \* the response of the request

vars == <<fs, pc, handler, path, content, stack, files, origin, hist, last,
          reads, ftm, resp>>

----------------------------------------------------------------------------
(* Bounds of the model.                                                    *)

\* Symbolic links one path resolution follows before the operating system
\* fails it with ELOOP (40 on Linux).
MaxSymlinks == 2

\* Components of a requested path.
MaxComps == 2

----------------------------------------------------------------------------
(* Characters and strings.                                                 *)

\* A byte that is not valid UTF-8, and the character U+FFFD it is shown as.
BadByte == "xFF"
ReplChar == "uFFFD"

\* The characters that occur in keys, in byte order.
Alphabet ==
    <<".", "/", "D", "L", "M", "a", "d", "e", "m", "n", "s", "t", "x", ReplChar>>

Ord(c) == CHOOSE i \in 1..Len(Alphabet) : Alphabet[i] = c

\* str's Ord, which orders BTreeMap<String, _>: bytewise lexicographic.
RECURSIVE StrLess(_, _)
StrLess(a, b) ==
    IF b = <<>> THEN FALSE
    ELSE IF a = <<>> THEN TRUE
    ELSE IF Head(a) = Head(b) THEN StrLess(Tail(a), Tail(b))
    ELSE Ord(Head(a)) < Ord(Head(b))

IsPrefix(a, b) == Len(a) <= Len(b) /\ SubSeq(b, 1, Len(a)) = a

\* OsStr::to_string_lossy: bytes that are not UTF-8 become U+FFFD.
ToStringLossy(s) == [i \in 1..Len(s) |-> IF s[i] = BadByte THEN ReplChar ELSE s[i]]

\* The names of a path joined by the separator: the path as a string.
RECURSIVE JoinNames(_)
JoinNames(names) ==
    IF names = <<>> THEN <<>>
    ELSE IF Len(names) = 1 THEN names[1]
    ELSE names[1] \o <<"/">> \o JoinNames(Tail(names))

\* An absolute path as a string.
AbsString(names) == IF names = <<>> THEN <<"/">> ELSE <<"/">> \o JoinNames(names)

\* The components of a path string; a trailing separator stands for a final
\* "." (the target must then be a directory).
RECURSIVE SplitFrom(_, _)
SplitFrom(s, cur) ==
    IF s = <<>> THEN (IF cur = <<>> THEN << <<".">> >> ELSE <<cur>>)
    ELSE IF Head(s) = "/"
         THEN (IF cur = <<>> THEN <<>> ELSE <<cur>>) \o SplitFrom(Tail(s), <<>>)
         ELSE SplitFrom(Tail(s), Append(cur, Head(s)))

Components(s) == IF s = <<>> THEN <<>> ELSE SplitFrom(s, <<>>)

\* The index of the last "." of a name, 0 when it has none.
LastDot(name) ==
    IF \E i \in 1..Len(name) : name[i] = "."
    THEN CHOOSE i \in 1..Len(name) :
            name[i] = "." /\ \A j \in (i + 1)..Len(name) : name[j] # "."
    ELSE 0

\* Path::extension: what follows the last "." of the file name, when
\* something precedes that "."; [some |-> FALSE] otherwise.
Extension(name) ==
    IF LastDot(name) <= 1 THEN [some |-> FALSE, ext |-> <<>>]
    ELSE [some |-> TRUE, ext |-> SubSeq(name, LastDot(name) + 1, Len(name))]

\* Path::file_stem: the file name without its extension.
FileStem(name) ==
    IF LastDot(name) <= 1 THEN name ELSE SubSeq(name, 1, LastDot(name) - 1)

----------------------------------------------------------------------------
(* The file system.                                                        *)

DotDot == <<".", ".">>
Dot == <<".">>

N_d == <<"d">>
N_de == <<"d", "e">>
N_s == <<"s">>
N_L == <<"L">>
N_amd == <<"a", ".", "m", "d">>
N_nmd == <<"n", ".", "m", "d">>

\* AppState.root: canonical, fixed at start.  "/de" is a sibling directory
\* whose path string has the root's as a prefix.
Root == <<N_d>>
Sibling == <<N_de>>
Sub == <<N_d, N_s>>

Dir(mode) == [kind |-> "dir", mode |-> mode, target |-> <<>>, content |-> "-"]
File(mode, c) == [kind |-> "file", mode |-> mode, target |-> <<>>, content |-> c]
Symlink(t) == [kind |-> "symlink", mode |-> TRUE, target |-> t, content |-> "-"]

\* The entry of the root that varies: a name and what bears it.
VNames ==
    { N_amd,
      <<"a", ".", "M", "D">>,
      <<"a", ".", "m", "d", ".", "t", "x", "t">>,
      <<"a">>,
      <<".", "m", "d">>,
      <<BadByte, ".", "m", "d">> }

VNodes ==
    { File(TRUE, "text of v"), File(FALSE, "text of v"),
      Symlink(<<N_de, N_amd>>), Symlink(<<N_d, N_s, N_nmd>>),
      Symlink(<<<<"x">>>>) }

VOptions ==
    {[present |-> FALSE, name |-> N_amd, node |-> File(TRUE, "text of v")]}
    \cup {[present |-> TRUE, name |-> n, node |-> File(TRUE, "text of v")] : n \in VNames}
    \cup {[present |-> TRUE, name |-> N_amd, node |-> x] : x \in VNodes}

\* The link "L" of the root: absent, or a symbolic link to the root itself
\* (an ancestor of the link), to the sibling directory outside the root, to
\* the subdirectory, or to nothing.
LOptions ==
    {[present |-> FALSE, target |-> <<>>]}
    \cup {[present |-> TRUE, target |-> t] : t \in {Root, Sibling, Sub, <<<<"x">>>>}}

\* The file system with the entry v, the link l and the subdirectory's mode.
MkFs(v, l, smode) ==
    [p \in {<<>>, Root, Sibling, Sibling \o <<N_amd>>, Sub, Sub \o <<N_nmd>>}
           \cup (IF v.present THEN {Root \o <<v.name>>} ELSE {})
           \cup (IF l.present THEN {Root \o <<N_L>>} ELSE {}) |->
        IF p = Sibling \o <<N_amd>> THEN File(TRUE, "secret")
        ELSE IF p = Sub \o <<N_nmd>> THEN File(TRUE, "text of n")
        ELSE IF p = Sub THEN Dir(smode)
        ELSE IF Len(p) <= 1 THEN Dir(TRUE)
        ELSE IF p = Root \o <<N_L>> THEN Symlink(l.target)
        ELSE v.node]

FileSystems == {MkFs(v, l, m) : v \in VOptions, l \in LOptions, m \in BOOLEAN}

Parent(p) == IF p = <<>> THEN <<>> ELSE SubSeq(p, 1, Len(p) - 1)

Ok(node) == [ok |-> TRUE, node |-> node, err |-> "-"]
Err(e) == [ok |-> FALSE, node |-> <<>>, err |-> e]

\* Path resolution by the operating system, from the real directory `cur`
\* along `comps`, with `budget` symbolic links left to follow; `follow` says
\* whether a symbolic link in the last component is followed (stat,
\* realpath) or not (lstat).  A link followed is replaced by its target,
\* which is an absolute path.
RECURSIVE Walk(_, _, _, _)
Walk(cur, comps, budget, follow) ==
    IF comps = <<>> THEN Ok(cur)
    ELSE IF fs[cur].kind # "dir" THEN Err("ENOTDIR")
    ELSE IF ~fs[cur].mode THEN Err("EACCES")
    ELSE IF Head(comps) = Dot THEN Walk(cur, Tail(comps), budget, follow)
    ELSE IF Head(comps) = DotDot THEN Walk(Parent(cur), Tail(comps), budget, follow)
    ELSE IF Append(cur, Head(comps)) \notin DOMAIN fs THEN Err("ENOENT")
    ELSE IF fs[Append(cur, Head(comps))].kind = "symlink" /\ (Tail(comps) # <<>> \/ follow)
    THEN IF budget = 0 THEN Err("ELOOP")
         ELSE Walk(<<>>, fs[Append(cur, Head(comps))].target \o Tail(comps), budget - 1, follow)
    ELSE Walk(Append(cur, Head(comps)), Tail(comps), budget, follow)

\* The mutant of Resolve: a resolution that never ends in ELOOP.
ResolveNoLimit(names) == Walk(<<>>, names, Len(names) + MaxSymlinks, TRUE)

\* Resolution of an absolute path, following every link (stat, realpath).
Resolve(names) == Walk(<<>>, names, MaxSymlinks, TRUE)

\* Resolution that leaves a link in the last component alone (lstat).
Lstat(names) == Walk(<<>>, names, MaxSymlinks, FALSE)

\* Path::canonicalize of a path string: the real location, all links resolved.
Canonicalize(s) == Resolve(Components(s))

\* Path::is_dir: follows links; false when the path cannot be resolved.
IsDir(names) == Resolve(names).ok /\ fs[Resolve(names).node].kind = "dir"

\* std::fs::read_dir: the names in a directory, or an error.
ReadDir(names) ==
    LET r == Resolve(names) IN
    IF ~r.ok THEN [ok |-> FALSE, entries |-> {}]
    ELSE IF fs[r.node].kind # "dir" \/ ~fs[r.node].mode THEN [ok |-> FALSE, entries |-> {}]
    ELSE [ok |-> TRUE,
          entries |-> {p[Len(p)] : p \in {q \in DOMAIN fs : q # <<>> /\ Parent(q) = r.node}}]

\* std::fs::read_to_string of a real location.
ReadToString(node) ==
    IF fs[node].kind = "dir" THEN [ok |-> FALSE, text |-> "-", err |-> "IsADirectory"]
    ELSE IF ~fs[node].mode THEN [ok |-> FALSE, text |-> "-", err |-> "PermissionDenied"]
    ELSE [ok |-> TRUE, text |-> fs[node].content, err |-> "-"]

----------------------------------------------------------------------------
(* The pure functions of main.rs.                                           *)

\* The mutant of StartsWith: a prefix test on the path strings.
StartsWithString(node, base) == IsPrefix(AbsString(base), AbsString(node))

\* Path::starts_with: component by component, not character by character.
StartsWith(node, base) == IsPrefix(base, node)

\* PathBuf::join of the root and a path string: an absolute path replaces
\* the root, any other is appended after a separator.
Join(root, p) ==
    IF p # <<>> /\ Head(p) = "/" THEN p ELSE AbsString(root) \o <<"/">> \o p

\* file_to_markdown: the file's text, or an error; `read` holds the real
\* locations handed to read_to_string.
file_to_markdown(root, p) ==
    LET c == Canonicalize(Join(root, p)) IN
    IF c.ok /\ StartsWith(c.node, root)
    THEN LET r == ReadToString(c.node) IN
         [ok |-> r.ok, text |-> r.text, err |-> r.err, read |-> {c.node}]
    ELSE [ok |-> FALSE, text |-> "-", err |-> "NotFound", read |-> {}]

\* The mutant of BTreeInsert: the entry is put at the end, as Vec::push does.
VecPush(m, key, name) ==
    SelectSeq(m, LAMBDA e : e.key # key) \o <<[key |-> key, name |-> name]>>

\* BTreeMap::insert: the entries stay ordered by key, and an equal key has
\* its value replaced.
BTreeInsert(m, key, name) ==
    LET before == SelectSeq(m, LAMBDA e : StrLess(e.key, key))
        after == SelectSeq(m, LAMBDA e : StrLess(key, e.key))
    IN before \o <<[key |-> key, name |-> name]>> \o after

Keys(m) == {m[i].key : i \in 1..Len(m)}

\* The mutant of KeyOf: the file name alone.
KeyOfFileName(names, root) == ToStringLossy(names[Len(names)])

\* Path::strip_prefix(root) followed by to_string_lossy: the key of a file.
KeyOf(names, root) == ToStringLossy(JoinNames(SubSeq(names, Len(root) + 1, Len(names))))

\* file_stem followed by to_string_lossy: the display name of a file.
NameOf(names) == ToStringLossy(FileStem(names[Len(names)]))

MdExt == <<"m", "d">>

\* The mutant of HasMdExtension: the name ends in ".md".
HasMdSuffix(name) ==
    Len(name) >= 3 /\ SubSeq(name, Len(name) - 2, Len(name)) = <<".", "m", "d">>

\* path.extension().is_some_and(|e| e == "md")
HasMdExtension(name) == Extension(name).some /\ Extension(name).ext = MdExt

ViewPrefix == <<"/", "v", "i", "e", "w", "/">>

\* The mutant of ListItem: the entry is active when its file name is that of
\* the current path.
ListItemByName(e, current) ==
    LET BaseName(str) ==
            IF str = <<>> THEN <<>> ELSE Components(str)[Len(Components(str))]
    IN
    [class |-> IF BaseName(e.key) = BaseName(current) THEN "active" ELSE "",
     href |-> ViewPrefix \o e.key,
     text |-> e.name]

\* One <li> of the sidebar.
ListItem(e, current) ==
    [class |-> IF e.key = current THEN "active" ELSE "",
     href |-> ViewPrefix \o e.key,
     text |-> e.name]

\* build_sidebar: one item per entry, in the map's order.
build_sidebar(m, current) == [i \in 1..Len(m) |-> ListItem(m[i], current)]

\* The responses.
Html(body) == [status |-> 200, location |-> <<>>, body |-> body]
Redirect(to) == [status |-> 303, location |-> to, body |-> <<>>]
NoResp == [status |-> 0, location |-> <<>>, body |-> <<>>]

\* The mutant of NotFoundPage: the body tells the error.
NotFoundPageReason(r) == Html(<<[tag |-> "p", val |-> r.err]>>)

\* view's early return, whatever the error r.
NotFoundPage(r) == Html(<<[tag |-> "p", val |-> "File not found"]>>)

\* The mutant of Page: the title is the path put together again from its
\* components.
PageNormalTitle(title, sidebar, text) ==
    Html(<<[tag |-> "title", val |-> JoinNames(Components(title))],
           [tag |-> "style", val |-> "CSS"],
           [tag |-> "nav", val |-> sidebar],
           [tag |-> "main", val |-> text]>>)

\* view's page.
Page(title, sidebar, text) ==
    Html(<<[tag |-> "title", val |-> title],
           [tag |-> "style", val |-> "CSS"],
           [tag |-> "nav", val |-> sidebar],
           [tag |-> "main", val |-> text]>>)

----------------------------------------------------------------------------
(* The requests a client sends.                                            *)

ReqComps == {DotDot, Dot, N_amd, N_s, N_nmd, N_L, N_de, N_d}

RECURSIVE SeqsUpTo(_, _)
SeqsUpTo(S, n) ==
    IF n = 0 THEN {<<>>}
    ELSE LET shorter == SeqsUpTo(S, n - 1) IN
         shorter \cup {Append(q, x) : q \in shorter, x \in S}

\* Relative and absolute-looking path strings.
Requests ==
    LET rel == {JoinNames(q) : q \in SeqsUpTo(ReqComps, MaxComps)} IN
    rel \cup {<<"/">> \o s : s \in rel}

----------------------------------------------------------------------------
(* The state machine.                                                      *)

NoHist == [done |-> FALSE, reordered |-> FALSE, failed |-> FALSE, afterFail |-> FALSE]
NoLast == [done |-> FALSE, files |-> <<>>, reordered |-> FALSE]
NoFtm == [ok |-> FALSE, text |-> "-", err |-> "-", read |-> {}]

Init ==
    /\ fs \in FileSystems
    /\ pc = "idle"
    /\ handler = "-"
    /\ path = <<>>
    /\ content = "-"
    /\ stack = <<>>
    /\ files = <<>>
    /\ origin = {}
    /\ hist = NoHist
    /\ last = NoLast
    /\ reads = {}
    /\ ftm = NoFtm
    /\ resp = NoResp

\* collect_md_files up to the first read_dir: an empty map, and the call
\* collect_recursive(root, root, files), which returns at once when the root
\* cannot be read.
StartScan ==
    LET rd == ReadDir(Root) IN
    /\ pc' = "scan"
    /\ files' = <<>>
    /\ origin' = {}
    /\ UNCHANGED last
    /\ hist' = [NoHist EXCEPT !.failed = ~rd.ok]
    /\ stack' = IF rd.ok THEN <<[dir |-> Root, todo |-> rd.entries]>> ELSE <<>>

\* GET /: index, up to its call of collect_md_files.
IndexRequest ==
    /\ pc = "idle"
    /\ handler' = "index"
    /\ StartScan
    /\ UNCHANGED <<fs, path, content, reads, ftm, resp>>

\* GET /view/p where file_to_markdown fails: the whole handler.
ViewNotFound(p) ==
    LET r == file_to_markdown(Root, p) IN
    /\ pc = "idle"
    /\ ~r.ok
    /\ handler' = "view"
    /\ path' = p
    /\ ftm' = r
    /\ reads' = r.read
    /\ resp' = NotFoundPage(r)
    /\ pc' = "sent"
    /\ UNCHANGED <<fs, content, stack, files, origin, hist, last>>

\* GET /view/p where file_to_markdown succeeds: view up to its call of
\* collect_md_files.
ViewRequest(p) ==
    LET r == file_to_markdown(Root, p) IN
    /\ pc = "idle"
    /\ r.ok
    /\ handler' = "view"
    /\ path' = p
    /\ content' = r.text
    /\ ftm' = r
    /\ reads' = r.read
    /\ StartScan
    /\ UNCHANGED <<fs, resp>>

Top == stack[Len(stack)]

SetTodo(todo) == [stack EXCEPT ![Len(stack)].todo = todo]

\* The calls of collect_recursive the model follows at once: one more than
\* the directories and links a path that the operating system resolves can
\* pass through.
MaxCalls == MaxSymlinks + 3

\* The mutant of ReadDirFailed: the error ends the whole scan.
ReadDirAborts(todo) == <<>>

\* collect_recursive(root, path, files) where read_dir(path) fails: the call
\* returns at once, and the caller's loop goes on with the entries left.
ReadDirFailed(todo) == SetTodo(todo)

\* The scan after one turn of collect_recursive's loop, for the entry e of
\* the directory being read: a directory is descended into (or passed over,
\* when it cannot be read), a file with the extension md is inserted, and
\* anything else is passed over.
AfterEntry(e) ==
    LET p == Append(Top.dir, e)
        rd == ReadDir(p)
        key == KeyOf(p, Root)
        rest == Top.todo \ {e}
    IN
    IF IsDir(p)
    THEN [stack |-> IF rd.ok
                    THEN Append(SetTodo(rest), [dir |-> p, todo |-> rd.entries])
                    ELSE ReadDirFailed(rest),
          files |-> files,
          origin |-> origin,
          hist |-> [hist EXCEPT !.failed = @ \/ ~rd.ok]]
    ELSE IF HasMdExtension(e)
    THEN [stack |-> SetTodo(rest),
          files |-> BTreeInsert(files, key, NameOf(p)),
          origin |-> {o \in origin : o.key # key} \cup {[key |-> key, from |-> p]},
          hist |-> [hist EXCEPT
                      !.reordered = @ \/ \E k \in Keys(files) : StrLess(key, k),
                      !.afterFail = @ \/ hist.failed]]
    ELSE [stack |-> SetTodo(rest), files |-> files, origin |-> origin, hist |-> hist]

\* One turn of collect_recursive's loop; the file system hands the entries
\* of a directory out in any order.
ForEntry(e) ==
    /\ pc = "scan"
    /\ stack # <<>>
    /\ Len(stack) <= MaxCalls
    /\ e \in Top.todo
    /\ stack' = AfterEntry(e).stack
    /\ files' = AfterEntry(e).files
    /\ origin' = AfterEntry(e).origin
    /\ hist' = AfterEntry(e).hist
    /\ UNCHANGED <<fs, pc, handler, path, content, last, reads, ftm, resp>>

\* collect_recursive returns when its loop has run out of entries.
Return ==
    /\ pc = "scan"
    /\ stack # <<>>
    /\ Top.todo = {}
    /\ stack' = SubSeq(stack, 1, Len(stack) - 1)
    /\ UNCHANGED <<fs, pc, handler, path, content, files, origin, hist, last, reads, ftm, resp>>

\* The mutant of FirstKey: the last key.
LastKey(m) == IF m = <<>> THEN <<>> ELSE m[Len(m)].key

\* The target of index's redirect: the first key, or the empty string.
FirstKey(m) == IF m = <<>> THEN <<>> ELSE m[1].key

\* index after collect_md_files has returned.
IndexRespond ==
    /\ pc = "scan"
    /\ handler = "index"
    /\ stack = <<>>
    /\ resp' = Redirect(ViewPrefix \o FirstKey(files))
    /\ pc' = "sent"
    /\ hist' = [hist EXCEPT !.done = TRUE]
    /\ UNCHANGED <<fs, handler, path, content, stack, files, origin, last, reads, ftm>>

\* view after collect_md_files has returned.
ViewRespond ==
    /\ pc = "scan"
    /\ handler = "view"
    /\ stack = <<>>
    /\ resp' = Page(path, build_sidebar(files, path), content)
    /\ pc' = "sent"
    /\ hist' = [hist EXCEPT !.done = TRUE]
    /\ UNCHANGED <<fs, handler, path, content, stack, files, origin, last, reads, ftm>>

\* The handler returns: the response goes out and the handler's values are
\* dropped.  The index just built is kept (as history) for the next scan to
\* be compared with.
Finish ==
    /\ pc = "sent"
    /\ pc' = "idle"
    /\ handler' = "-"
    /\ path' = <<>>
    /\ content' = "-"
    /\ files' = <<>>
    /\ origin' = {}
    /\ hist' = NoHist
    /\ last' = IF hist.done
               THEN [done |-> TRUE, files |-> files, reordered |-> hist.reordered]
               ELSE last
    /\ reads' = {}
    /\ ftm' = NoFtm
    /\ resp' = NoResp
    /\ UNCHANGED <<fs, stack>>

Next ==
    \/ IndexRequest
    \/ pc = "idle" /\ \E p \in Requests : ViewNotFound(p)
    \/ pc = "idle" /\ \E p \in Requests : ViewRequest(p)
    \/ pc = "scan" /\ stack # <<>> /\ \E e \in Top.todo : ForEntry(e)
    \/ Return
    \/ IndexRespond
    \/ ViewRespond
    \/ Finish

Spec == Init /\ [][Next]_vars

----------------------------------------------------------------------------
(* What the claims speak of.                                               *)

ViewSent == pc = "sent" /\ handler = "view"
IndexSent == pc = "sent" /\ handler = "index"

\* The response is view's page.
IsPage(r) == r.status = 200 /\ Len(r.body) = 4

\* The response is the fixed "File not found" page.
IsNotFound(r) ==
    r.status = 200 /\ r.body = <<[tag |-> "p", val |-> "File not found"]>>

\* The real location of root joined with the requested path, links resolved.
Target == Canonicalize(Join(Root, path))

\* a is b or a location beneath b, component by component.
Under(a, b) == Len(b) <= Len(a) /\ \A i \in 1..Len(b) : a[i] = b[i]

\* C1: a requested path whose canonical location is not the root or beneath
\* it, component by component, makes file_to_markdown return NotFound with
\* nothing handed to read_to_string, and view answer "File not found".
C1_OutsideIsNotFound ==
    (ViewSent /\ Target.ok /\ ~Under(Target.node, Root))
        => /\ ~ftm.ok /\ ftm.err = "NotFound"
           /\ reads = {}
           /\ IsNotFound(resp)

\* C1's case: the request leads to the file of the sibling directory /de.
C1_Witness ==
    /\ ViewSent /\ Target.ok /\ Target.node = Sibling \o <<N_amd>>
    /\ IsNotFound(resp) /\ reads = {}

\* C2 as stated: a requested path that canonicalizes to an existing file
\* under the root is answered with status 200, the raw path as the title and
\* the file's content as the body.
C2_Original ==
    (ViewSent /\ Target.ok /\ Under(Target.node, Root)
              /\ fs[Target.node].kind = "file")
        => /\ IsPage(resp)
           /\ resp.body[1] = [tag |-> "title", val |-> path]
           /\ resp.body[4] = [tag |-> "main", val |-> fs[Target.node].content]

\* C2 amended: the same, for a file the process is allowed to read.
C2_ReadableFileIsShown ==
    (ViewSent /\ Target.ok /\ Under(Target.node, Root)
              /\ fs[Target.node].kind = "file" /\ fs[Target.node].mode)
        => /\ ftm.ok
           /\ IsPage(resp)
           /\ resp.body[1] = [tag |-> "title", val |-> path]
           /\ resp.body[4] = [tag |-> "main", val |-> fs[Target.node].content]

\* C2's case: an absolute-looking path to a file of the root is shown under
\* its raw title.
C2_Witness ==
    /\ ViewSent /\ IsPage(resp)
    /\ path = AbsString(Root \o <<N_amd>>)
    /\ resp.body[1].val = path
    /\ resp.body[4].val = "text of v"

\* C3: whatever makes file_to_markdown fail, view's response is the one
\* fixed "File not found" page, and the handler ends with a response.
C3_OneNotFoundPage ==
    /\ (ViewSent /\ ~ftm.ok) => IsNotFound(resp)
    /\ (handler = "view" /\ ~ftm.ok) => pc = "sent"

\* C3's case: the path check passed and reading the content failed.
C3_Witness ==
    /\ ViewSent /\ ~ftm.ok /\ ftm.err = "PermissionDenied" /\ reads # {}
    /\ IsNotFound(resp)

----------------------------------------------------------------------------
(* The index.                                                              *)

ScanSent == pc = "sent" /\ hist.done

Entries(m) == {m[i] : i \in 1..Len(m)}

LastName(names) == names[Len(names)]

\* The path relative to the root.
Rel(names) == SubSeq(names, Len(Root) + 1, Len(names))

\* The name is something, a ".", and "md".
ExtIsMd(name) ==
    Len(name) >= 4 /\ SubSeq(name, Len(name) - 2, Len(name)) = <<".", "m", "d">>

\* The name without its last three characters.
StemOfMd(name) == SubSeq(name, 1, Len(name) - 3)

\* The paths of the non-directories met when descending from dir through
\* every directory that can be read.
RECURSIVE Beneath(_)
Beneath(dir) ==
    IF ~ReadDir(dir).ok THEN {}
    ELSE UNION {IF IsDir(Append(dir, e)) THEN Beneath(Append(dir, e)) ELSE {Append(dir, e)} :
                e \in ReadDir(dir).entries}

\* C4 as stated: the index has an entry for every file (not a directory)
\* located beneath the root whose name has the extension md, with the
\* relative path as key and the name without ".md" as value; and every entry
\* is that of such a file.
C4_Original ==
    ScanSent =>
      /\ \A n \in DOMAIN fs :
            (Len(n) > Len(Root) /\ Under(n, Root) /\ fs[n].kind # "dir"
                /\ ExtIsMd(LastName(n)))
            => [key |-> JoinNames(Rel(n)), name |-> StemOfMd(LastName(n))] \in Entries(files)
      /\ \A e \in Entries(files) :
            LET q == Root \o Components(e.key) IN
            /\ Lstat(q).ok /\ ~IsDir(q)
            /\ ExtIsMd(LastName(q))
            /\ e.name = StemOfMd(LastName(q))

\* C4 amended: the index has exactly the entries of the non-directories with
\* the extension md that are met when descending from the root through the
\* directories that can be read; key and value are the relative path and the
\* name without ".md", with U+FFFD for each byte that is not UTF-8.
C4_IndexedFiles ==
    ScanSent =>
      Entries(files) =
        {[key |-> ToStringLossy(JoinNames(Rel(q))),
          name |-> ToStringLossy(StemOfMd(LastName(q)))] :
            q \in {x \in Beneath(Root) : ExtIsMd(LastName(x))}}

\* C4's case: beside a.md.txt in the root, the one entry is that of the
\* subdirectory's n.md.
C4_Witness ==
    /\ ScanSent
    /\ Root \o <<<<"a", ".", "m", "d", ".", "t", "x", "t">>>> \in DOMAIN fs
    /\ Entries(files) = {[key |-> JoinNames(<<N_s, N_nmd>>), name |-> <<"n">>]}

C6_SameSortedIndex ==
    ScanSent =>
      /\ last.done => files = last.files
      /\ \A i, j \in 1..Len(files) : i < j => StrLess(files[i].key, files[j].key)

\* C6's case: two scans that met the entries in different orders.
C6_Witness ==
    /\ ScanSent /\ last.done /\ Len(files) >= 2
    /\ hist.reordered # last.reordered
    /\ files = last.files

\* The sidebar of the page sent.
SidebarSent == resp.body[3].val

\* C7: the sidebar has one item per entry of the index, in its order, and
\* the items marked active are the one of the key equal to the requested
\* path, if there is one, and none otherwise.
C7_OneActiveItem ==
    (ViewSent /\ IsPage(resp)) =>
      /\ Len(SidebarSent) = Len(files)
      /\ \A i \in 1..Len(files) :
            /\ SidebarSent[i].href = ViewPrefix \o files[i].key
            /\ SidebarSent[i].text = files[i].name
            /\ SidebarSent[i].class = "active" <=> files[i].key = path
      /\ Cardinality({i \in 1..Len(files) : SidebarSent[i].class = "active"})
            = IF path \in Keys(files) THEN 1 ELSE 0

\* C7's case: several items, one of them active.
C7_Witness ==
    /\ ViewSent /\ IsPage(resp) /\ Len(files) >= 3
    /\ path \in Keys(files)
    /\ Cardinality({i \in 1..Len(files) : SidebarSent[i].class = "active"}) = 1

\* C8: a scan in which a directory could not be read ends with a response
\* all the same, and its index has every file with the extension md of the
\* directories that could be read.
C8_UnreadableSkipped ==
    /\ (pc = "sent" /\ hist.failed) => hist.done /\ resp.status # 0
    /\ (ScanSent /\ hist.failed) =>
          \A q \in Beneath(Root) :
              ExtIsMd(LastName(q)) => ToStringLossy(JoinNames(Rel(q))) \in Keys(files)

\* C8's case: the subdirectory cannot be read, and a.md, met after it, is in
\* the index.
C8_Witness ==
    /\ ScanSent /\ ~fs[Sub].mode /\ hist.failed /\ hist.afterFail
    /\ N_amd \in Keys(files)

----------------------------------------------------------------------------
(* Termination, and the index against the path check.                      *)

\* The number of entries each active call of collect_recursive has left.
Sizes(st) == [i \in 1..Len(st) |-> Cardinality(st[i].todo)]

\* a comes before b: a is b cut short, or is smaller where they first differ.
RECURSIVE Before(_, _)
Before(a, b) ==
    IF b = <<>> THEN FALSE
    ELSE IF a = <<>> THEN TRUE
    ELSE IF Head(a) = Head(b) THEN Before(Tail(a), Tail(b))
    ELSE Head(a) < Head(b)

\* C9: collect_md_files terminates, also where a link of the root leads back
\* to the root: the calls of collect_recursive never nest deeper than
\* MaxCalls - 1, and every step of a scan either hands the index to the
\* handler, which responds, or takes the entries left to a combination that
\* comes before the present one.
C9_ScanEnds ==
    /\ [](pc = "scan" => Len(stack) < MaxCalls)
    /\ [][pc = "scan" =>
            \/ pc' = "sent" /\ stack = <<>> /\ resp'.status # 0
            \/ pc' = "scan" /\ Before(Sizes(stack'), Sizes(stack))]_vars

\* C9's case: the link L leads to the root, the scan went down through it as
\* far as links are followed, and the response is out.
C9_Witness ==
    /\ ScanSent
    /\ Root \o <<N_L>> \in DOMAIN fs
    /\ fs[Root \o <<N_L>>].target = Root
    /\ JoinNames(<<N_L, N_L, N_s, N_nmd>>) \in Keys(files)

\* The file behind the path a key was made from, links resolved.
Source(o) == Resolve(o.from)

\* C10 as stated: file_to_markdown succeeds on every key of the index and
\* returns the content of the file the key was made from.
C10_Original ==
    ScanSent =>
      \A o \in origin :
          /\ file_to_markdown(Root, o.key).ok
          /\ Source(o).ok
          /\ file_to_markdown(Root, o.key).text = fs[Source(o).node].content

\* No byte of the path is outside UTF-8.
IsUtf8(names) == \A i \in 1..Len(names) : \A j \in 1..Len(names[i]) : names[i][j] # BadByte

\* C10 amended: file_to_markdown succeeds on a key, and returns the content
\* of the file the key was made from, when that file, links resolved, is a
\* regular file the process may read that lies under the root, and its path
\* is UTF-8.
C10_ServableKeysAreViewable ==
    ScanSent =>
      \A o \in origin :
          (/\ Source(o).ok
           /\ Under(Source(o).node, Root)
           /\ fs[Source(o).node].kind = "file"
           /\ fs[Source(o).node].mode
           /\ IsUtf8(o.from))
          => /\ file_to_markdown(Root, o.key).ok
             /\ file_to_markdown(Root, o.key).text = fs[Source(o).node].content

\* C10's case: the file is reached through the link L to the subdirectory,
\* and the page for its key shows it.
C10_Witness ==
    /\ ViewSent /\ IsPage(resp)
    /\ path = JoinNames(<<N_L, N_nmd>>)
    /\ path \in Keys(files)
    /\ resp.body[4].val = "text of n"

====
